---------------------------- MODULE Spec2Model ----------------------------
(***************************************************************************)
(* Conway's Game of Life: the bit-packed Grid (conway/src/grid.rs), the    *)
(* Pattern placement (conway/src/patterns.rs) and the PatternAnalyzer      *)
(* (conway/src/analyzer.rs).                                               *)
(*                                                                         *)
(* A u64 storage word is modelled as the set of its set bit positions      *)
(* (a subset of 0..63): `|` is union, `& !` is set difference, `^` is      *)
(* symmetric difference and count_ones is the cardinality.  A Vec is a     *)
(* sequence, so Rust index i is TLA+ index i + 1.                          *)
(***************************************************************************)
EXTENDS Integers, Sequences, FiniteSets, TLC

VARIABLES
    grid,       \* the Grid object: [width, height, stride, cells, boundary]
    op,         \* history: the last Grid operation that acted on grid
    prev,       \* history: the values of grid before the last operations,
                \* most recent first
    twin,       \* a second Grid object
    running,    \* per Grid object (1: grid, 2: twin), the update() call under
                \* way: its collected rows and the order the row tasks ran in
    analyzer,   \* the PatternAnalyzer: [max_generations, grid_size, boundary]
    file,       \* the file at the path given to save_to_file and load_from_file:
                \* its bytes, or NoFile when no file exists there
    last,       \* history: the last call of the Grid API made with explicit
                \* arguments, with what it returned
    run         \* the analyze_pattern call: its position (pc), its arguments
                \* (pattern, x, y), its locals (stats, grid_history,
                \* center_history, generation; its Grid is grid) and, as
                \* history, the number of update() calls made (updates) and
                \* the Grid of every generation (trace)

vars == <<grid, op, prev, twin, running, analyzer, file, last, run>>

---------------------------------------------------------------------------
(* Bounds of the checked instances *)

\* boards of the interactive Grid specification have at most MaxCells cells
MaxCells == 9
\* boards of the generation-advance specification have at most MaxLifeCells cells
MaxLifeCells == 16
\* and start with at most MaxSeedLive live cells
MaxSeedLive == 3
\* boards of the row-parallel specification: at most MaxParCells cells in at most
\* MaxParRows rows, each Grid object calling update() at most MaxParUpdates times
MaxParCells == 6
MaxParRows == 3
MaxParUpdates == 1
\* boards of the analyzer specification are at most MaxADim wide and high, and
\* the largest generation budget given to analyze_pattern is MaxGenerations
MaxADim == 5
MaxGenerations == 12
\* the generation budgets of the glider analyses run from 40 to MaxGliderGens
MaxGliderGens == 40
\* boards of the specification of the calls with recorded arguments have at
\* most MaxBoardCells cells
MaxBoardCells == 3
\* boards of the persistence specification have at most MaxFileCells cells
MaxFileCells == 2
\* boards of the neighbour-count specification have at most MaxCountCells cells
MaxCountCells == 9
\* boards of the analyses past generation 50 are 8 to MaxGrowthDim cells a
\* side, and their largest budget is MaxGrowthGens generations
MaxGrowthDim == 9
MaxGrowthGens == 55
\* compare_patterns is given at most MaxCompareLen entries, on boards of 3 to
\* MaxCompareDim cells a side, with a budget of MaxCompareGens generations
MaxCompareLen == 2
MaxCompareDim == 4
MaxCompareGens == 3

---------------------------------------------------------------------------
(* Grid: conway/src/grid.rs *)

\* bits per storage word (u64)
WordBits == 64

BoundaryType == {"Wrap", "Fixed"}

\* the Vec of the elements f[1], ..., f[Len(f)], held as an explicit sequence
Vec(f) == SubSeq(f, 1, Len(f))

\* vec![0u64; n]
zeroed(n) == Vec([i \in 1..n |-> {}])

\* Grid::new
new(width, height, boundary) ==
    LET stride == (width + 63) \div WordBits
    IN  [width |-> width, height |-> height, stride |-> stride,
         cells |-> zeroed(stride * height),
         boundary |-> boundary]

\* Grid::get
get(g, x, y) ==
    IF x >= g.width \/ y >= g.height THEN FALSE
    ELSE LET bit_index == x % WordBits
             chunk_index == (y * g.stride) + (x \div WordBits)
         IN  IF chunk_index >= Len(g.cells) THEN FALSE
             ELSE bit_index \in g.cells[chunk_index + 1]

\* Grid::set
set(g, x, y, state) ==
    IF x >= g.width \/ y >= g.height THEN g
    ELSE LET bit_index == x % WordBits
             chunk_index == (y * g.stride) + (x \div WordBits)
         IN  IF chunk_index >= Len(g.cells) THEN g
             ELSE IF state
                  THEN [g EXCEPT !.cells[chunk_index + 1] = @ \cup {bit_index}]
                  ELSE [g EXCEPT !.cells[chunk_index + 1] = @ \ {bit_index}]

\* a plausible slip in toggle: the range check forgotten, the bounds check of
\* the storage index kept
toggle_NoRangeCheck(g, x, y) ==
    LET bit_index == x % WordBits
        chunk_index == (y * g.stride) + (x \div WordBits)
    IN  IF chunk_index >= Len(g.cells) THEN g
        ELSE [g EXCEPT !.cells[chunk_index + 1] =
                           (@ \ {bit_index}) \cup ({bit_index} \ @)]

\* a plausible slip in the bit operation: |= where the source has ^=
toggle_OrMask(g, x, y) ==
    IF x >= g.width \/ y >= g.height THEN g
    ELSE LET bit_index == x % WordBits
             chunk_index == (y * g.stride) + (x \div WordBits)
         IN  IF chunk_index >= Len(g.cells) THEN g
             ELSE [g EXCEPT !.cells[chunk_index + 1] = @ \cup {bit_index}]

\* Grid::toggle
toggle(g, x, y) ==
    IF x >= g.width \/ y >= g.height THEN g
    ELSE LET bit_index == x % WordBits
             chunk_index == (y * g.stride) + (x \div WordBits)
         IN  IF chunk_index >= Len(g.cells) THEN g
             ELSE [g EXCEPT !.cells[chunk_index + 1] =
                                (@ \ {bit_index}) \cup ({bit_index} \ @)]

\* the eight (dx, dy) of the two nested -1..=1 loops, (0, 0) skipped
Offsets == {d \in (-1..1) \X (-1..1) : d # <<0, 0>>}

\* a plausible slip in the boundary match: Wrap handled like Fixed
NeighborAlive_NeverWraps(g, x, y, dx, dy) ==
    LET nx == x + dx
        ny == y + dy
    IN  IF nx < 0 \/ nx >= g.width THEN FALSE
        ELSE IF ny < 0 \/ ny >= g.height THEN FALSE
        ELSE get(g, nx, ny)

\* a plausible slip in the boundary match: Fixed handled like Wrap
NeighborAlive_AlwaysWraps(g, x, y, dx, dy) ==
    get(g, (x + dx) % g.width, (y + dy) % g.height)

\* one iteration of the loops of count_neighbors: TRUE when it does count += 1
\* (a % b of TLA+ is rem_euclid for b > 0)
NeighborAlive(g, x, y, dx, dy) ==
    IF g.boundary = "Wrap"
    THEN get(g, (x + dx) % g.width, (y + dy) % g.height)
    ELSE LET nx == x + dx
             ny == y + dy
         IN  IF nx < 0 \/ nx >= g.width THEN FALSE
             ELSE IF ny < 0 \/ ny >= g.height THEN FALSE
             ELSE get(g, nx, ny)

\* Grid::count_neighbors
count_neighbors(g, x, y) ==
    Cardinality({d \in Offsets : NeighborAlive(g, x, y, d[1], d[2])})

\* a plausible slip in the rule table: birth forgotten
will_be_alive_NoBirth(is_alive, neighbors) ==
    is_alive /\ neighbors \in {2, 3}

\* a plausible slip in the rule table: a dead cell born with up to 3 neighbours
will_be_alive_BirthUpTo3(is_alive, neighbors) ==
    \/ is_alive /\ neighbors \in {2, 3}
    \/ ~is_alive /\ neighbors <= 3

\* a plausible slip in the rule table: the (true, 3) arm forgotten
will_be_alive_Survive2Only(is_alive, neighbors) ==
    \/ is_alive /\ neighbors = 2
    \/ ~is_alive /\ neighbors = 3

\* the match on (is_alive, neighbors) in Grid::update
will_be_alive(is_alive, neighbors) ==
    \/ is_alive /\ neighbors = 2
    \/ is_alive /\ neighbors = 3
    \/ ~is_alive /\ neighbors = 3

\* the closure of one row of Grid::update: the (chunk_index, bit mask) pairs
\* pushed for row y, in x order
row_updates(g, y) ==
    LET alive == SelectSeq([i \in 1..g.width |-> i - 1],
                     LAMBDA x : will_be_alive(get(g, x, y), count_neighbors(g, x, y)))
    IN  [i \in 1..Len(alive) |->
            <<(y * g.stride) + (alive[i] \div WordBits), {alive[i] % WordBits}>>]

\* (0..self.height).into_par_iter().map(..).collect(), rows 0..n-1: the results
\* are kept by row index whatever order the closures ran in
collect(g, n) == Vec([i \in 1..n |-> row_updates(g, i - 1)])

\* new_cells[chunk_index] after the two merge loops: every bit_mask pushed for
\* that word, by any row, has been OR-ed into it
merged_word(new_cells, results, chunk_index) ==
    new_cells[chunk_index + 1]
        \cup UNION {UNION {results[r][i][2] :
                              i \in {j \in 1..Len(results[r]) :
                                        results[r][j][1] = chunk_index}} :
                      r \in 1..Len(results)}

\* the merge loops over the collected rows, results[y + 1] being row y
apply_results(new_cells, results) ==
    Vec([k \in 1..Len(new_cells) |-> merged_word(new_cells, results, k - 1)])

\* Grid::update, its rows taken in index order
update(g) ==
    LET new_cells == zeroed(Len(g.cells))
        results == collect(g, g.height)
    IN  [g EXCEPT !.cells = apply_results(new_cells, results)]

\* Grid::clear
clear(g) == [g EXCEPT !.cells = zeroed(Len(g.cells))]

\* Grid::dimensions
dimensions(g) == <<g.width, g.height>>

\* a plausible slip in the fold: the words that hold a live cell are counted,
\* not their bits
count_alive_NonZeroWords(g) ==
    Cardinality({chunk_index \in 1..Len(g.cells) : g.cells[chunk_index] # {}})

\* Grid::count_alive: the sum of count_ones() over the words, which is the
\* number of (word, bit) pairs with the bit set
count_alive(g) ==
    Cardinality({w \in (1..Len(g.cells)) \X (0..(WordBits - 1)) : w[2] \in g.cells[w[1]]})

---------------------------------------------------------------------------
(* The interactive Grid: every public mutator, each one atomic *)

Dims(maxCells) == {d \in (1..maxCells) \X (1..maxCells) : d[1] * d[2] <= maxCells}

\* history kept by an operation: the pre-state pushed, the last `keep` kept
Remember(keep) ==
    prev' = SubSeq(<<grid>> \o prev, 1, IF Len(prev) + 1 < keep THEN Len(prev) + 1 ELSE keep)

\* no second Grid object
NoGrid == new(0, 0, "Wrap")

\* no analysis
NoAnalyzer == [max_generations |-> 0]

NoRun == [pc |-> "none"]

\* no file at the path
NoFile == [exists |-> FALSE]

\* no call made yet
NoCall == [call |-> "none"]

\* no update() call under way
Idle == [active |-> FALSE, rows |-> <<>>, order |-> <<>>, calls |-> 0]

NoCalls == <<Idle, Idle>>

Init ==
    /\ \E d \in Dims(MaxCells), b \in BoundaryType : grid = new(d[1], d[2], b)
    /\ op = "new"
    /\ prev = <<>>
    /\ twin = NoGrid
    /\ running = NoCalls
    /\ analyzer = NoAnalyzer
    /\ run = NoRun
    /\ file = NoFile
    /\ last = NoCall

\* coordinates offered to the mutators: every cell and one past each edge
Set ==
    \E x \in 0..grid.width, y \in 0..grid.height, state \in BOOLEAN :
        /\ grid' = set(grid, x, y, state)
        /\ op' = "set"
        /\ Remember(1)
        /\ UNCHANGED <<twin, running, analyzer, run, file, last>>

Toggle ==
    \E x \in 0..grid.width, y \in 0..grid.height :
        /\ grid' = toggle(grid, x, y)
        /\ op' = "toggle"
        /\ Remember(1)
        /\ UNCHANGED <<twin, running, analyzer, run, file, last>>

Clear ==
    /\ grid' = clear(grid)
    /\ op' = "clear"
    /\ Remember(1)
    /\ UNCHANGED <<twin, running, analyzer, run, file, last>>

Update ==
    /\ grid' = update(grid)
    /\ op' = "update"
    /\ Remember(1)
    /\ UNCHANGED <<twin, running, analyzer, run, file, last>>

Next == Set \/ Toggle \/ Clear \/ Update

Spec == Init /\ [][Next]_vars

---------------------------------------------------------------------------
(* Generation advance alone, from every seed of a few live cells *)

\* the sets of at most k elements of S
RECURSIVE UpTo(_, _)
UpTo(S, k) ==
    IF k = 0 THEN {{}}
    ELSE LET P == UpTo(S, k - 1) IN P \cup {p \cup {c} : p \in P, c \in S}

\* set(x, y, true) for every cell of `live` on a fresh board (at most 64 wide:
\* one word per row)
Seeded(width, height, boundary, live) ==
    [new(width, height, boundary) EXCEPT
        !.cells = Vec([r \in 1..height |-> {c[1] : c \in {q \in live : q[2] = r - 1}}])]

InitLife ==
    /\ \E d \in Dims(MaxLifeCells), b \in BoundaryType :
         \E live \in UpTo((0..(d[1] - 1)) \X (0..(d[2] - 1)), MaxSeedLive) :
            grid = Seeded(d[1], d[2], b, live)
    /\ op = "new"
    /\ prev = <<>>
    /\ twin = NoGrid
    /\ running = NoCalls
    /\ analyzer = NoAnalyzer
    /\ run = NoRun
    /\ file = NoFile
    /\ last = NoCall

UpdateLife ==
    /\ grid' = update(grid)
    /\ op' = "update"
    /\ Remember(2)
    /\ UNCHANGED <<twin, running, analyzer, run, file, last>>

NextLife == UpdateLife

SpecLife == InitLife /\ [][NextLife]_vars

---------------------------------------------------------------------------
(* update() row by row: rayon runs the per-row closures in any order, on any *)
(* thread; collect() keeps the rows by index whatever order they finish in.  *)
(* grid and twin are two Grid objects in the same cell state, as when one    *)
(* was saved and the other restored from it.                                 *)

GridOf(i) == IF i = 1 THEN grid ELSE twin

InitPar ==
    /\ \E d \in Dims(MaxParCells), b \in BoundaryType :
         /\ d[2] <= MaxParRows
         /\ \E c \in [1..d[2] -> SUBSET (0..(d[1] - 1))] :
               grid = [new(d[1], d[2], b) EXCEPT !.cells = c]
    /\ twin = grid
    /\ op = "new"
    /\ prev = <<>>
    /\ running = NoCalls
    /\ analyzer = NoAnalyzer
    /\ run = NoRun
    /\ file = NoFile
    /\ last = NoCall

\* update() is entered: new_cells allocated, no row computed yet
UpdateBegin(i) ==
    /\ ~running[i].active
    /\ running[i].calls < MaxParUpdates
    /\ running' = [running EXCEPT ![i] = [active |-> TRUE, rows |-> <<>>,
                                          order |-> <<>>, calls |-> @.calls + 1]]
    /\ IF i = 1 THEN op' = "updating" /\ Remember(1) ELSE UNCHANGED <<op, prev>>
    /\ UNCHANGED <<grid, twin, analyzer, run, file, last>>

\* a slip the borrow of self rules out: the row task writes its row into
\* self.cells as soon as it has computed it
RowTaskInPlace(i, y) ==
    /\ running[i].active
    /\ y \in 0..(GridOf(i).height - 1)
    /\ y \notin DOMAIN running[i].rows
    /\ LET g == GridOf(i)
           ups == row_updates(g, y)
           cleared == SubSeq(g.cells, 1, y * g.stride) \o zeroed(g.stride)
                      \o SubSeq(g.cells, (y + 1) * g.stride + 1, Len(g.cells))
           written == [g EXCEPT !.cells = apply_results(cleared, <<ups>>)]
       IN  /\ running' = [running EXCEPT ![i].rows = (y :> ups) @@ @,
                                          ![i].order = Append(@, y)]
           /\ IF i = 1 THEN grid' = written /\ twin' = twin
                       ELSE twin' = written /\ grid' = grid
    /\ UNCHANGED <<op, prev, analyzer, run, file, last>>

\* the closure of into_par_iter().map for row y: reads self, returns its pairs
RowTask(i, y) ==
    /\ running[i].active
    /\ y \in 0..(GridOf(i).height - 1)
    /\ y \notin DOMAIN running[i].rows
    /\ running' = [running EXCEPT ![i].rows = (y :> row_updates(GridOf(i), y)) @@ @,
                                   ![i].order = Append(@, y)]
    /\ UNCHANGED <<grid, twin, op, prev, analyzer, run, file, last>>

\* every row collected: the pairs are merged into new_cells, rows in index
\* order, and new_cells becomes self.cells
UpdateEnd(i) ==
    /\ running[i].active
    /\ DOMAIN running[i].rows = 0..(GridOf(i).height - 1)
    /\ LET g == GridOf(i)
           new_cells == zeroed(Len(g.cells))
           collected == [k \in 1..g.height |-> running[i].rows[k - 1]]
           after == [g EXCEPT !.cells = apply_results(new_cells, collected)]
       IN  IF i = 1 THEN grid' = after /\ twin' = twin /\ op' = "update"
                   ELSE twin' = after /\ grid' = grid /\ op' = op
    /\ running' = [running EXCEPT ![i].active = FALSE]
    /\ UNCHANGED <<prev, analyzer, run, file, last>>

NextPar ==
    \E i \in 1..2 :
        \/ UpdateBegin(i)
        \/ \E y \in 0..(MaxParRows - 1) : RowTask(i, y)
        \/ UpdateEnd(i)

SpecPar == InitPar /\ [][NextPar]_vars

---------------------------------------------------------------------------
(* Pattern: conway/src/patterns.rs *)

glider ==
    [name |-> "Glider", width |-> 3, height |-> 3,
     cells |-> << <<1, 0>>, <<2, 1>>, <<0, 2>>, <<1, 2>>, <<2, 2>> >>]

blinker ==
    [name |-> "Blinker", width |-> 3, height |-> 3,
     cells |-> << <<1, 0>>, <<1, 1>>, <<1, 2>> >>]

toad ==
    [name |-> "Toad", width |-> 4, height |-> 2,
     cells |-> << <<1, 0>>, <<2, 0>>, <<3, 0>>, <<0, 1>>, <<1, 1>>, <<2, 1>> >>]

beacon ==
    [name |-> "Beacon", width |-> 4, height |-> 4,
     cells |-> << <<0, 0>>, <<1, 0>>, <<0, 1>>, <<3, 2>>, <<2, 3>>, <<3, 3>> >>]

r_pentomino ==
    [name |-> "R-pentomino", width |-> 3, height |-> 3,
     cells |-> << <<1, 0>>, <<2, 0>>, <<0, 1>>, <<1, 1>>, <<1, 2>> >>]

lightweight_spaceship ==
    [name |-> "LWSS", width |-> 5, height |-> 4,
     cells |-> << <<1, 0>>, <<4, 0>>, <<0, 1>>, <<0, 2>>, <<4, 2>>,
                  <<0, 3>>, <<1, 3>>, <<2, 3>>, <<3, 3>> >>]

diehard ==
    [name |-> "Diehard", width |-> 8, height |-> 3,
     cells |-> << <<6, 0>>, <<0, 1>>, <<1, 1>>, <<1, 2>>, <<5, 2>>, <<6, 2>>, <<7, 2>> >>]

acorn ==
    [name |-> "Acorn", width |-> 7, height |-> 3,
     cells |-> << <<1, 0>>, <<3, 1>>, <<0, 2>>, <<1, 2>>, <<4, 2>>, <<5, 2>>, <<6, 2>> >>]

\* how a call ends: it returns a value, or it panics
Returned(v) == [panic |-> FALSE, value |-> v]

Panic(message) == [panic |-> TRUE, message |-> message]

\* usize coordinates.  A value within 2^31 of 2^64 is held as the negative
\* integer v - 2^64 (usize::MAX is -1), every other value as itself, so that
\* wrapping addition is integer addition and the order of usize is:
usize_lt(a, b) == IF (a < 0) = (b < 0) THEN a < b ELSE b < 0

\* a + b on usize, for an offset 0 <= b < 2^31: the sum passes 2^64 exactly
\* when a is held negative and a + b is not.  With overflow checks (debug
\* builds) that panics; without them the sum wraps.
usize_add(a, b, overflow_checks) ==
    IF overflow_checks /\ a < 0 /\ a + b >= 0
    THEN Panic("attempt to add with overflow")
    ELSE Returned(a + b)

\* the (dx, dy) of the two nested loops of the clearing pass, dy outermost
box(width, height) ==
    [k \in 1..(width * height) |-> <<(k - 1) % width, (k - 1) \div width>>]

\* one pass of Pattern::place: for every offset c, in order, the test
\* x + c.0 < width && y + c.1 < height and, where it holds, set(.., state).
\* The pass ends early in the panic of an overflowing addition.
RECURSIVE set_each(_, _, _, _, _, _)
set_each(g, offsets, x, y, state, overflow_checks) ==
    IF offsets = <<>> THEN Returned(g)
    ELSE LET c == Head(offsets)
             nx == usize_add(x, c[1], overflow_checks)
             ny == usize_add(y, c[2], overflow_checks)
             rest(placed) == set_each(placed, Tail(offsets), x, y, state, overflow_checks)
         IN  IF nx.panic THEN nx
             ELSE IF ~usize_lt(nx.value, dimensions(g)[1]) THEN rest(g)
             ELSE IF ny.panic THEN ny
             ELSE IF ~usize_lt(ny.value, dimensions(g)[2]) THEN rest(g)
             ELSE rest(set(g, nx.value, ny.value, state))

\* Pattern::place, in a build with or without overflow checks
place(pattern, g, x, y, overflow_checks) ==
    LET cleared == set_each(g, box(pattern.width, pattern.height), x, y, FALSE,
                            overflow_checks)
    IN  IF cleared.panic THEN cleared
        ELSE set_each(cleared.value, pattern.cells, x, y, TRUE, overflow_checks)

---------------------------------------------------------------------------
(* PatternAnalyzer: conway/src/analyzer.rs *)

\* enum PatternType.  An f64 quotient is kept as the pair of its operands:
\* average_growth_rate <<n, d>> is n / d, speed <<s, d>> is sqrt(s) / d.
Unknown == [kind |-> "Unknown"]

\* a plausible slip at the extinction check: the generation before the one
\* just simulated is reported
ExtinctPattern_GenerationBefore(generations_to_extinction) ==
    [kind |-> "ExtinctPattern",
     generations_to_extinction |-> generations_to_extinction - 1]

ExtinctPattern(generations_to_extinction) ==
    [kind |-> "ExtinctPattern", generations_to_extinction |-> generations_to_extinction]

StablePattern(generations_to_stabilize, oscillator_period, final_population) ==
    [kind |-> "StablePattern", generations_to_stabilize |-> generations_to_stabilize,
     oscillator_period |-> oscillator_period, final_population |-> final_population]

ExplodingPattern(average_growth_rate) ==
    [kind |-> "ExplodingPattern", average_growth_rate |-> average_growth_rate]

SpaceshipPattern(period, displacement, speed) ==
    [kind |-> "SpaceshipPattern", period |-> period, displacement |-> displacement,
     speed |-> speed]

\* Option
None == <<>>

Some(v) == <<v>>

\* a plausible slip in PatternStats::new: the running maximum started at 0
new_stats_MaxFromZero(name, initial_population) ==
    [name |-> name,
     initial_population |-> initial_population,
     max_population |-> 0,
     generation_of_max |-> 0,
     final_population |-> initial_population,
     generations_analyzed |-> 0,
     pattern_type |-> Unknown,
     stable_formations |-> <<>>,
     population_history |-> <<initial_population>>]

\* PatternStats::new (analysis_duration, a wall-clock reading, is left out)
new_stats(name, initial_population) ==
    [name |-> name,
     initial_population |-> initial_population,
     max_population |-> initial_population,
     generation_of_max |-> 0,
     final_population |-> initial_population,
     generations_analyzed |-> 0,
     pattern_type |-> Unknown,
     stable_formations |-> <<>>,
     population_history |-> <<initial_population>>]

\* PatternAnalyzer::hash_grid: the bools fed to the hasher, row by row.  The
\* u64 that finish() makes of them is taken to differ when they differ.
hash_grid(grid_size, g) ==
    [k \in 1..(grid_size[1] * grid_size[2]) |->
        get(g, (k - 1) % grid_size[1], (k - 1) \div grid_size[1])]

\* the sum of coordinate `coord` over the cells of `live`, coordinates below
\* n: each cell c counts once for every k in 1..c[coord]
sum_coordinate(live, coord, n) ==
    Cardinality({p \in live \X (1..n) : p[2] <= p[1][coord]})

\* a plausible slip: the empty-board arm taken whatever the board holds
find_pattern_center_BoardCentre(grid_size, g) ==
    <<grid_size[1] \div 2, grid_size[2] \div 2>>

\* PatternAnalyzer::find_pattern_center
find_pattern_center(grid_size, g) ==
    LET live == {c \in (0..(grid_size[1] - 1)) \X (0..(grid_size[2] - 1)) :
                    get(g, c[1], c[2])}
        count == Cardinality(live)
        sum_x == sum_coordinate(live, 1, grid_size[1])
        sum_y == sum_coordinate(live, 2, grid_size[2])
    IN  IF count = 0
        THEN <<grid_size[1] \div 2, grid_size[2] \div 2>>
        ELSE <<sum_x \div count, sum_y \div count>>

\* the `for period in ..=10` loop of detect_spaceship, from `period` on
RECURSIVE look_for_cyclic_movement(_, _)
look_for_cyclic_movement(center_history, period) ==
    IF period > 10 THEN Returned(None)
    ELSE IF Len(center_history) <= period * 2
    THEN look_for_cyclic_movement(center_history, period + 1)
    ELSE LET samples == Len(center_history) \div period
             displacements ==
                 [i \in 1..samples |->
                     LET pos1 == center_history[(i - 1) * period + 1]
                         pos2 == center_history[i * period + 1]
                     IN  <<pos2[1] - pos1[1], pos2[2] - pos1[2]>>]
         IN  IF samples < 2
             THEN look_for_cyclic_movement(center_history, period + 1)
             ELSE IF \E i \in 0..(samples - 1) : (i + 1) * period >= Len(center_history)
             THEN Panic("index out of bounds")
             ELSE IF \A i \in 1..(samples - 1) : displacements[i] = displacements[i + 1]
             THEN LET displacement == displacements[1]
                      distance_squared == displacement[1] * displacement[1]
                                          + displacement[2] * displacement[2]
                  IN  Returned(Some(SpaceshipPattern(period, displacement,
                                                     <<distance_squared, period>>)))
             ELSE look_for_cyclic_movement(center_history, period + 1)

\* PatternAnalyzer::detect_spaceship
detect_spaceship(center_history, population_history) ==
    IF Len(center_history) < 10 THEN Returned(None)
    ELSE IF Len(population_history) < 10 THEN Panic("slice index out of range")
    ELSE LET recent_populations ==
                 SubSeq(population_history, Len(population_history) - 9,
                        Len(population_history))
             population_stable ==
                 \A i \in 1..9 : recent_populations[i] = recent_populations[i + 1]
         IN  IF ~population_stable THEN Returned(None)
             ELSE look_for_cyclic_movement(center_history, 2)

\* PatternAnalyzer::identify_stable_formations.  grid_size.1 - 2 is computed
\* once and grid_size.0 - 2 once per row of the outer range; on usize either
\* underflows below 2.  With overflow checks the subtraction panics; without
\* them it wraps to 2^64 - 1 and the range runs over every coordinate from 1
\* up, of which only those on the board can hold a live cell.
identify_stable_formations(grid_size, g, overflow_checks) ==
    LET width == grid_size[1]
        height == grid_size[2]
        underflow == height < 2 \/ (height >= 4 /\ width < 2)
        ys == IF height < 2 THEN 1..(height - 1) ELSE 1..(height - 3)
        xs == IF width < 2 THEN 1..(width - 1) ELSE 1..(width - 3)
        is_block(x, y) ==
            /\ x < width - 1 /\ y < height - 1
            /\ get(g, x, y) /\ get(g, x + 1, y)
            /\ get(g, x, y + 1) /\ get(g, x + 1, y + 1)
        is_blinker(x, y) ==
            /\ x < width - 2
            /\ get(g, x, y) /\ get(g, x + 1, y) /\ get(g, x + 2, y)
            /\ ~get(g, x, y - 1) /\ ~get(g, x + 1, y - 1) /\ ~get(g, x + 2, y - 1)
            /\ ~get(g, x, y + 1) /\ ~get(g, x + 1, y + 1) /\ ~get(g, x + 2, y + 1)
        blocks == Cardinality({c \in xs \X ys : is_block(c[1], c[2])})
        blinkers == Cardinality({c \in xs \X ys :
                                    ~is_block(c[1], c[2]) /\ is_blinker(c[1], c[2])})
        names == (IF blocks > 0 THEN {"Block"} ELSE {})
                 \cup (IF blinkers > 0 THEN {"Blinker"} ELSE {})
    IN  IF underflow /\ overflow_checks
        THEN Panic("attempt to subtract with overflow")
        ELSE Returned([n \in names |-> IF n = "Block" THEN blocks ELSE blinkers])

\* a plausible slip in the loop range: one generation too many
generations_OneMore(max_generations) == 1..(max_generations + 1)

\* the range of `for generation in 1..=self.max_generations`
generations(max_generations) == 1..max_generations

\* a plausible slip in the cycle arm: the still-life case forgotten
stable_pattern_NoStillLife(generation, previous_gen, population) ==
    StablePattern(previous_gen, Some(generation - previous_gen), population)

\* the classification of a state seen before, at previous_gen
stable_pattern(generation, previous_gen, population) ==
    LET period == generation - previous_gen
    IN  IF period = 1
        THEN StablePattern(generation - 1, None, population)
        ELSE StablePattern(previous_gen, Some(period), population)

\* a plausible slip: the board of the analysis before is used again where one
\* of the right size is at hand, instead of a new one
AnalyzeBegin_ReuseGrid(pattern, x, y) ==
    /\ run.pc = "none"
    /\ LET created == IF dimensions(grid) = analyzer.grid_size
                      THEN grid
                      ELSE new(analyzer.grid_size[1], analyzer.grid_size[2],
                               analyzer.boundary)
           checked == place(pattern, created, x, y, TRUE)
       IN
        \* the builds with and without overflow checks differ only where an
        \* addition overflows, that is where the checked build panics
        \E placing \in IF checked.panic
                        THEN {checked, place(pattern, created, x, y, FALSE)}
                        ELSE {checked} :
        LET placed == placing.value
            initial_population == count_alive(placed)
            called == [pc |-> "panicked",
                       pattern |-> pattern, x |-> x, y |-> y,
                       stats |-> new_stats(pattern.name, 0),
                       grid_history |-> <<>>,
                       center_history |-> <<>>,
                       generation |-> 0,
                       updates |-> 0,
                       trace |-> <<>>,
                       panic |-> ""]
        IN  IF placing.panic
            THEN /\ grid' = created
                 /\ run' = [called EXCEPT !.panic = placing.message]
            ELSE /\ grid' = placed
                 /\ run' = [called EXCEPT
                       !.pc = IF 1 \in generations(analyzer.max_generations)
                              THEN "loop" ELSE "finalize",
                       !.stats = new_stats(pattern.name, initial_population),
                       !.grid_history = (hash_grid(analyzer.grid_size, placed) :> 0),
                       !.center_history = <<find_pattern_center(analyzer.grid_size, placed)>>,
                       !.generation = 1,
                       !.trace = <<placed>>]
    /\ op' = "place"
    /\ Remember(1)
    /\ UNCHANGED <<twin, running, analyzer, file, last>>

\* analyze_pattern up to its loop: the board is made, the pattern placed,
\* generation 0 recorded
AnalyzeBegin(pattern, x, y) ==
    /\ run.pc = "none"
    /\ LET created == new(analyzer.grid_size[1], analyzer.grid_size[2],
                           analyzer.boundary)
           checked == place(pattern, created, x, y, TRUE)
       IN
        \* the builds with and without overflow checks differ only where an
        \* addition overflows, that is where the checked build panics
        \E placing \in IF checked.panic
                        THEN {checked, place(pattern, created, x, y, FALSE)}
                        ELSE {checked} :
        LET placed == placing.value
            initial_population == count_alive(placed)
            called == [pc |-> "panicked",
                       pattern |-> pattern, x |-> x, y |-> y,
                       stats |-> new_stats(pattern.name, 0),
                       grid_history |-> <<>>,
                       center_history |-> <<>>,
                       generation |-> 0,
                       updates |-> 0,
                       trace |-> <<>>,
                       panic |-> ""]
        IN  IF placing.panic
            THEN /\ grid' = created
                 /\ run' = [called EXCEPT !.panic = placing.message]
            ELSE /\ grid' = placed
                 /\ run' = [called EXCEPT
                       !.pc = IF 1 \in generations(analyzer.max_generations)
                              THEN "loop" ELSE "finalize",
                       !.stats = new_stats(pattern.name, initial_population),
                       !.grid_history = (hash_grid(analyzer.grid_size, placed) :> 0),
                       !.center_history = <<find_pattern_center(analyzer.grid_size, placed)>>,
                       !.generation = 1,
                       !.trace = <<placed>>]
    /\ op' = "place"
    /\ Remember(1)
    /\ UNCHANGED <<twin, running, analyzer, file, last>>

\* a plausible slip in the first test of the growth check: >= 50 for > 50
exploding_From50(generation, population, initial_population) ==
    /\ generation >= 50
    /\ population > initial_population * 2
    /\ 10 * (population - initial_population) > generation

\* the tests of the growth check.  growth_rate > 0.1, on the f64 quotient of
\* two integers below 2^53 compared with the f64 nearest to 1/10, holds
\* exactly when 10 * (population - initial_population) > generation: the
\* division is correctly rounded, so a quotient of exactly 1/10 gives the
\* literal itself, and any larger quotient exceeds it by 1 / (10 * generation)
\* or more.
exploding(generation, population, initial_population) ==
    /\ generation > 50
    /\ population > initial_population * 2
    /\ 10 * (population - initial_population) > generation

\* a plausible slip in the order of the checks: the repeated state looked for
\* before the extinction
AnalyzeGeneration_RepeatFirst ==
    /\ run.pc = "loop"
    /\ \E updated \in {update(grid)} :
       \E population \in {count_alive(updated)} :
       LET generation == run.generation
           population_history == Append(run.stats.population_history, population)
           counted == IF population > run.stats.max_population
                      THEN [run.stats EXCEPT !.population_history = population_history,
                                             !.max_population = population,
                                             !.generation_of_max = generation]
                      ELSE [run.stats EXCEPT !.population_history = population_history]
           center_history == Append(run.center_history,
                                    find_pattern_center(analyzer.grid_size, updated))
           hash == hash_grid(analyzer.grid_size, updated)
           spaceship_info == IF Len(center_history) > 10
                             THEN detect_spaceship(center_history, population_history)
                             ELSE Returned(None)
           initial_population == run.stats.initial_population
           seen == [run EXCEPT !.updates = @ + 1,
                               !.trace = Append(@, updated),
                               !.center_history = center_history,
                               !.stats = counted]
           break(pattern_type) == [seen EXCEPT !.pc = "finalize",
                                               !.stats.pattern_type = pattern_type]
       IN  /\ grid' = updated
           /\ run' =
                IF hash \in DOMAIN run.grid_history
                THEN break(stable_pattern(generation, run.grid_history[hash], population))
                ELSE IF population = 0
                THEN break(ExtinctPattern(generation))
                ELSE IF spaceship_info.panic
                THEN [seen EXCEPT !.pc = "panicked", !.panic = spaceship_info.message]
                ELSE IF spaceship_info.value # None
                THEN break(spaceship_info.value[1])
                ELSE IF exploding(generation, population, initial_population)
                THEN break(ExplodingPattern(<<population - initial_population, generation>>))
                ELSE [seen EXCEPT !.grid_history = (hash :> generation) @@ @,
                                  !.generation = generation + 1,
                                  !.pc = IF generation + 1 \in generations(analyzer.max_generations)
                                         THEN "loop" ELSE "finalize"]
    /\ op' = "update"
    /\ Remember(1)
    /\ UNCHANGED <<twin, running, analyzer, file, last>>

\* one iteration of the generation loop, to its break, to the panic inside
\* detect_spaceship, or to its end and the loop's next value.  The updated
\* grid and its population are values computed once, as in the source.
AnalyzeGeneration ==
    /\ run.pc = "loop"
    /\ \E updated \in {update(grid)} :
       \E population \in {count_alive(updated)} :
       LET generation == run.generation
           population_history == Append(run.stats.population_history, population)
           counted == IF population > run.stats.max_population
                      THEN [run.stats EXCEPT !.population_history = population_history,
                                             !.max_population = population,
                                             !.generation_of_max = generation]
                      ELSE [run.stats EXCEPT !.population_history = population_history]
           center_history == Append(run.center_history,
                                    find_pattern_center(analyzer.grid_size, updated))
           hash == hash_grid(analyzer.grid_size, updated)
           spaceship_info == IF Len(center_history) > 10
                             THEN detect_spaceship(center_history, population_history)
                             ELSE Returned(None)
           initial_population == run.stats.initial_population
           seen == [run EXCEPT !.updates = @ + 1,
                               !.trace = Append(@, updated),
                               !.center_history = center_history,
                               !.stats = counted]
           break(pattern_type) == [seen EXCEPT !.pc = "finalize",
                                               !.stats.pattern_type = pattern_type]
       IN  /\ grid' = updated
           /\ run' =
                IF population = 0
                THEN break(ExtinctPattern(generation))
                ELSE IF hash \in DOMAIN run.grid_history
                THEN break(stable_pattern(generation, run.grid_history[hash], population))
                ELSE IF spaceship_info.panic
                THEN [seen EXCEPT !.pc = "panicked", !.panic = spaceship_info.message]
                ELSE IF spaceship_info.value # None
                THEN break(spaceship_info.value[1])
                ELSE IF exploding(generation, population, initial_population)
                THEN break(ExplodingPattern(<<population - initial_population, generation>>))
                ELSE [seen EXCEPT !.grid_history = (hash :> generation) @@ @,
                                  !.generation = generation + 1,
                                  !.pc = IF generation + 1 \in generations(analyzer.max_generations)
                                         THEN "loop" ELSE "finalize"]
    /\ op' = "update"
    /\ Remember(1)
    /\ UNCHANGED <<twin, running, analyzer, file, last>>

\* analyze_pattern after its loop: the final statistics and, for a Stable
\* pattern, the formation scan, in a build with or without overflow checks
AnalyzeEnd ==
    /\ run.pc = "finalize"
    /\ LET finished == [run.stats EXCEPT
                           !.generations_analyzed = Len(run.stats.population_history) - 1,
                           !.final_population =
                               run.stats.population_history[Len(run.stats.population_history)]]
       IN  IF finished.pattern_type.kind = "StablePattern"
           THEN \E overflow_checks \in BOOLEAN :
                   LET formations == identify_stable_formations(analyzer.grid_size, grid,
                                                                overflow_checks)
                   IN  IF formations.panic
                       THEN run' = [run EXCEPT !.pc = "panicked", !.stats = finished,
                                               !.panic = formations.message]
                       ELSE run' = [run EXCEPT !.pc = "done",
                                               !.stats = [finished EXCEPT
                                                   !.stable_formations = formations.value]]
           ELSE run' = [run EXCEPT !.pc = "done", !.stats = finished]
    /\ UNCHANGED <<grid, op, prev, twin, running, analyzer, file, last>>

---------------------------------------------------------------------------
(* analyze_pattern on small boards: every board up to MaxADim x MaxADim, both *)
(* boundary modes, the small library patterns and every pattern drawn in a    *)
(* 2 x 2 box, every placement on the board and one past each edge             *)

\* the box of the drawn patterns, in the order their cells are listed
DrawnOrder == << <<0, 0>>, <<1, 0>>, <<0, 1>>, <<1, 1>> >>

drawn(cells) ==
    [name |-> "Drawn", width |-> 2, height |-> 2,
     cells |-> SelectSeq(DrawnOrder, LAMBDA c : c \in cells)]

Patterns ==
    {glider, blinker, toad, beacon, r_pentomino}
        \cup {drawn(cells) : cells \in SUBSET {DrawnOrder[k] : k \in 1..Len(DrawnOrder)}}

Budgets == {0, 1, MaxGenerations}

InitAnalyze ==
    /\ \E max_generations \in Budgets, width \in 1..MaxADim, height \in 1..MaxADim,
          boundary \in BoundaryType :
            analyzer = [max_generations |-> max_generations,
                        grid_size |-> <<width, height>>,
                        boundary |-> boundary]
    /\ run = NoRun
    /\ file = NoFile
    /\ last = NoCall
    /\ grid = NoGrid
    /\ op = "none"
    /\ prev = <<>>
    /\ twin = NoGrid
    /\ running = NoCalls

NextAnalyze ==
    \/ /\ run.pc = "none"
       /\ \E pattern \in Patterns, x \in 0..analyzer.grid_size[1],
             y \in 0..analyzer.grid_size[2] : AnalyzeBegin(pattern, x, y)
    \/ AnalyzeGeneration
    \/ AnalyzeEnd

SpecAnalyze == InitAnalyze /\ [][NextAnalyze]_vars

---------------------------------------------------------------------------
(* analyze_pattern of the glider on the 50 x 50 Wrap board *)

\* corners of the placed box, 3 cells or more from every edge of the board
GliderOrigins == {3, 17, 30, 44}

InitGlider ==
    /\ \E max_generations \in 40..MaxGliderGens :
            analyzer = [max_generations |-> max_generations,
                        grid_size |-> <<50, 50>>,
                        boundary |-> "Wrap"]
    /\ run = NoRun
    /\ file = NoFile
    /\ last = NoCall
    /\ grid = NoGrid
    /\ op = "none"
    /\ prev = <<>>
    /\ twin = NoGrid
    /\ running = NoCalls

NextGlider ==
    \/ \E x \in GliderOrigins, y \in GliderOrigins : AnalyzeBegin(glider, x, y)
    \/ AnalyzeGeneration
    \/ AnalyzeEnd

SpecGlider == InitGlider /\ [][NextGlider]_vars

---------------------------------------------------------------------------
(* analyze_pattern past generation 50: the library patterns that live that   *)
(* long on square boards of 8 to MaxGrowthDim cells a side, both boundary     *)
(* modes, every placement on the board, with budgets of 50 and of             *)
(* MaxGrowthGens generations                                                  *)

GrowthPatterns == {r_pentomino, lightweight_spaceship, diehard, acorn}

GrowthBudgets == {50, MaxGrowthGens}

InitGrowth ==
    /\ \E max_generations \in GrowthBudgets, side \in 8..MaxGrowthDim,
          boundary \in BoundaryType :
            analyzer = [max_generations |-> max_generations,
                        grid_size |-> <<side, side>>,
                        boundary |-> boundary]
    /\ run = NoRun
    /\ file = NoFile
    /\ last = NoCall
    /\ grid = NoGrid
    /\ op = "none"
    /\ prev = <<>>
    /\ twin = NoGrid
    /\ running = NoCalls

NextGrowth ==
    \/ /\ run.pc = "none"
       /\ \E pattern \in GrowthPatterns, x \in 0..(analyzer.grid_size[1] - 1),
             y \in 0..(analyzer.grid_size[2] - 1) : AnalyzeBegin(pattern, x, y)
    \/ AnalyzeGeneration
    \/ AnalyzeEnd

SpecGrowth == InitGrowth /\ [][NextGrowth]_vars

---------------------------------------------------------------------------
(* compare_patterns after a standalone analyze_pattern call of the same      *)
(* analyzer: lists of up to MaxCompareLen entries on square boards of 3 to    *)
(* MaxCompareDim cells a side, both boundary modes, budgets 0 and             *)
(* MaxCompareGens.  last holds the call under way: its arguments and the      *)
(* results collected so far, and for compare_patterns the call before it.     *)

ComparePatterns == {blinker, glider}

\* the entries (pattern, x, y) offered to both calls
CompareEntries == {<<pattern, at, at>> : pattern \in ComparePatterns, at \in {0, 1}}

\* the slices offered to compare_patterns
CompareLists == UNION {[1..n -> CompareEntries] : n \in 0..MaxCompareLen}

InitCompare ==
    /\ \E max_generations \in {0, MaxCompareGens}, side \in 3..MaxCompareDim,
          boundary \in BoundaryType :
            analyzer = [max_generations |-> max_generations,
                        grid_size |-> <<side, side>>,
                        boundary |-> boundary]
    /\ run = NoRun
    /\ file = NoFile
    /\ last = NoCall
    /\ grid = NoGrid
    /\ op = "none"
    /\ prev = <<>>
    /\ twin = NoGrid
    /\ running = NoCalls

\* a standalone analyze_pattern call begins
StandaloneCall ==
    /\ last.call = "none"
    /\ \E entry \in CompareEntries : AnalyzeBegin(entry[1], entry[2], entry[3])

\* the standalone call returns its stats; its Grid is dropped with the call
StandaloneReturn ==
    /\ last.call = "none"
    /\ run.pc = "done"
    /\ last' = [call |-> "analyze_pattern", pattern |-> run.pattern, x |-> run.x,
                y |-> run.y, returned |-> run.stats]
    /\ run' = NoRun
    /\ UNCHANGED <<grid, op, prev, twin, running, analyzer, file>>

\* compare_patterns is called with a slice of entries
CompareCall ==
    /\ last.call = "analyze_pattern"
    /\ \E patterns \in CompareLists :
          last' = [call |-> "compare_patterns", patterns |-> patterns,
                   results |-> <<>>, before |-> last]
    /\ UNCHANGED <<grid, op, prev, twin, running, analyzer, file, run>>

\* the closure of the map is called on the next entry of the slice
CompareMap ==
    /\ last.call = "compare_patterns"
    /\ Len(last.results) < Len(last.patterns)
    /\ \E entry \in {last.patterns[Len(last.results) + 1]} :
          AnalyzeBegin(entry[1], entry[2], entry[3])

\* the closure returns the stats of its entry, which collect() appends
CompareCollect ==
    /\ last.call = "compare_patterns"
    /\ run.pc = "done"
    /\ last' = [last EXCEPT !.results = Append(@, run.stats)]
    /\ run' = NoRun
    /\ UNCHANGED <<grid, op, prev, twin, running, analyzer, file>>

NextCompare ==
    \/ StandaloneCall
    \/ StandaloneReturn
    \/ CompareCall
    \/ CompareMap
    \/ CompareCollect
    \/ AnalyzeGeneration
    \/ AnalyzeEnd

SpecCompare == InitCompare /\ [][NextCompare]_vars

---------------------------------------------------------------------------
(* The Grid calls made with explicit arguments, recorded in last: get, set,  *)
(* toggle and Pattern::place on every cell state of every board of up to     *)
(* MaxBoardCells cells, with coordinates on the board, up to two past each   *)
(* edge (get, set, toggle) or at the top of the usize range (place)          *)

\* a pattern whose listed offsets lie outside its declared box, one listed twice
stray ==
    [name |-> "Stray", width |-> 1, height |-> 1,
     cells |-> << <<1, 1>>, <<0, 0>>, <<1, 1>> >>]

BoardPatterns == {blinker, drawn({<<0, 0>>, <<1, 1>>}), stray}

\* usize::MAX
NearMax == {-1}

InitBoard ==
    /\ \E d \in Dims(MaxBoardCells), b \in BoundaryType :
         \E live \in SUBSET ((0..(d[1] - 1)) \X (0..(d[2] - 1))) :
            grid = Seeded(d[1], d[2], b, live)
    /\ op = "new"
    /\ prev = <<>>
    /\ last = NoCall
    /\ twin = NoGrid
    /\ running = NoCalls
    /\ analyzer = NoAnalyzer
    /\ run = NoRun
    /\ file = NoFile

GetAt(x, y) ==
    /\ last' = [call |-> "get", x |-> x, y |-> y, returned |-> get(grid, x, y)]
    /\ op' = "get"
    /\ Remember(1)
    /\ UNCHANGED <<grid, twin, running, analyzer, run, file>>

SetAt(x, y, state) ==
    /\ grid' = set(grid, x, y, state)
    /\ last' = [call |-> "set", x |-> x, y |-> y, state |-> state]
    /\ op' = "set"
    /\ Remember(1)
    /\ UNCHANGED <<twin, running, analyzer, run, file>>

ToggleAt(x, y) ==
    /\ grid' = toggle(grid, x, y)
    /\ last' = [call |-> "toggle", x |-> x, y |-> y]
    /\ op' = "toggle"
    /\ Remember(1)
    /\ UNCHANGED <<twin, running, analyzer, run, file>>

\* pattern.place(&mut grid, x, y), in a build with or without overflow checks.
\* A panic comes before the first set: an addition overflows only from a
\* coordinate at the top of the usize range, which passes no test before it.
PlaceAt(pattern, x, y) ==
    /\ \E overflow_checks \in BOOLEAN :
        LET placing == place(pattern, grid, x, y, overflow_checks)
        IN  /\ grid' = IF placing.panic THEN grid ELSE placing.value
            /\ last' = [call |-> "place", pattern |-> pattern, x |-> x, y |-> y,
                        overflow_checks |-> overflow_checks,
                        panic |-> placing.panic]
    /\ op' = "place"
    /\ Remember(1)
    /\ UNCHANGED <<twin, running, analyzer, run, file>>

NextBoard ==
    \/ \E x \in 0..(grid.width + 1), y \in 0..(grid.height + 1) : GetAt(x, y)
    \/ \E x \in 0..(grid.width + 1), y \in 0..(grid.height + 1), state \in BOOLEAN :
          SetAt(x, y, state)
    \/ \E x \in 0..(grid.width + 1), y \in 0..(grid.height + 1) : ToggleAt(x, y)
    \/ \E pattern \in BoardPatterns, x \in (0..(grid.width - 1)) \cup NearMax,
          y \in (0..(grid.height - 1)) \cup NearMax : PlaceAt(pattern, x, y)

SpecBoard == InitBoard /\ [][NextBoard]_vars

---------------------------------------------------------------------------

(* Persistence: Grid::save_to_file and Grid::load_from_file                  *)
(* (conway/src/grid.rs).  A file is the sequence of its bytes, a byte is a   *)
(* number in 0..255.  The file system is taken to be reliable: creating and  *)
(* writing do not fail, and reading fails only where the file ends.          *)

\* io::Result<()>
Ok == [ok |-> TRUE]

Err(kind, message) == [ok |-> FALSE, kind |-> kind, message |-> message]

\* the value of a byte from the set of its set bit positions in 0..7
byte_value(bits) ==
    LET sum[b \in 0..8] == IF b = 8 THEN 0
                           ELSE (IF b \in bits THEN 2 ^ b ELSE 0) + sum[b + 1]
    IN  sum[0]

\* (n as u32).to_le_bytes(), for n < 2^31
u32_to_le_bytes(n) ==
    <<n % 256, (n \div 256) % 256, (n \div 65536) % 256, (n \div 16777216) % 256>>

\* u32::from_le_bytes(buffer) as usize
u32_from_le_bytes(buffer) ==
    buffer[1] + (256 * buffer[2]) + (65536 * buffer[3]) + (16777216 * buffer[4])

\* a plausible slip in the byte order: u64::to_be_bytes
u64_to_be_bytes(word) ==
    Vec([k \in 1..8 |-> byte_value({b - (8 * (8 - k)) :
                                       b \in {c \in word : c \div 8 = 8 - k}})])

\* u64::to_le_bytes: byte k holds bits 8k .. 8k + 7
u64_to_le_bytes(word) ==
    Vec([k \in 1..8 |-> byte_value({b - (8 * (k - 1)) :
                                       b \in {c \in word : c \div 8 = k - 1}})])

\* u64::from_le_bytes
u64_from_le_bytes(buffer) ==
    {c \in 0..(WordBits - 1) : (buffer[(c \div 8) + 1] \div (2 ^ (c % 8))) % 2 = 1}

\* Grid::save_to_file: the bytes written to the created, truncated file
save_to_file(g) ==
    LET words == Vec([k \in 1..Len(g.cells) |-> u64_to_le_bytes(g.cells[k])])
    IN  u32_to_le_bytes(g.width) \o u32_to_le_bytes(g.height)
            \o Vec([i \in 1..(8 * Len(words)) |-> words[((i - 1) \div 8) + 1][((i - 1) % 8) + 1]])

\* format!("{}", n) of a usize, a sequence of digit characters
RECURSIVE decimal(_)
decimal(n) ==
    LET digit == <<"0", "1", "2", "3", "4", "5", "6", "7", "8", "9">>
    IN  IF n < 10 THEN <<digit[n + 1]>>
        ELSE decimal(n \div 10) \o <<digit[(n % 10) + 1]>>

\* format!("({}, {})", a, b)
pair(a, b) == <<"(">> \o decimal(a) \o <<", ">> \o decimal(b) \o <<")">>

\* a plausible slip in the error raised for a dimension mismatch: the message
\* names the grid's dimensions twice
mismatch_error_GridTwice(width, height, g) ==
    Err("InvalidData",
        <<"File dimensions ">> \o pair(g.width, g.height)
            \o <<" don't match grid dimensions ">> \o pair(g.width, g.height))

\* the error of load_from_file for a file of other dimensions
mismatch_error(width, height, g) ==
    Err("InvalidData",
        <<"File dimensions ">> \o pair(width, height)
            \o <<" don't match grid dimensions ">> \o pair(g.width, g.height))

\* the error of read_exact at the end of the file
unexpected_eof == Err("UnexpectedEof", <<"failed to fill whole buffer">>)

\* Grid::load_from_file on the file f: what it returns and the Grid it leaves.
\* The words are read in order; the first one the file is too short for ends
\* the call with the words before it already stored.
load_from_file(g, f) ==
    IF ~f.exists
    THEN [returned |-> Err("NotFound", <<"No such file or directory">>), grid |-> g]
    ELSE IF Len(f.bytes) < 8
    THEN [returned |-> unexpected_eof, grid |-> g]
    ELSE LET width == u32_from_le_bytes(SubSeq(f.bytes, 1, 4))
             height == u32_from_le_bytes(SubSeq(f.bytes, 5, 8))
             whole == (Len(f.bytes) - 8) \div 8
             cells == Vec([k \in 1..Len(g.cells) |->
                              IF k <= whole
                              THEN u64_from_le_bytes(SubSeq(f.bytes, (8 * k) + 1, (8 * k) + 8))
                              ELSE g.cells[k]])
         IN  IF width # g.width \/ height # g.height
             THEN [returned |-> mismatch_error(width, height, g), grid |-> g]
             ELSE [returned |-> IF whole < Len(g.cells) THEN unexpected_eof ELSE Ok,
                   grid |-> [g EXCEPT !.cells = cells]]

---------------------------------------------------------------------------
(* Saving and loading: the Grid grid loads, any cell state of any board of   *)
(* up to MaxFileCells cells; the Grid twin saves, any cell state of any such *)
(* board, of the same dimensions or of others.  Before the load the file     *)
(* may be replaced by one that another program wrote in the same format, and *)
(* cut short; the specification follows the file up to the load, and what is *)
(* done to the file after a load is left out.                                *)

\* the storage words another program may write: no cell, cell 0, and cell 1
\* together with the last bit of the word
ForeignWords == {{}, {0}, {1, 63}}

\* the dimensions another program may write besides the loading grid's own
ForeignDimensions == {<<258, 1>>}

\* the lengths a file of len bytes may be cut to: inside and at the end of
\* the width, at the end of the height, inside and at the end of every word
CutPoints(len) == {n \in 0..(len - 1) : n = 3 \/ n % 4 = 0}

InitFile ==
    /\ \E d \in Dims(MaxFileCells), e \in Dims(MaxFileCells), b \in BoundaryType :
         \E live \in SUBSET ((0..(d[1] - 1)) \X (0..(d[2] - 1))),
            saved \in SUBSET ((0..(e[1] - 1)) \X (0..(e[2] - 1))) :
            /\ grid = Seeded(d[1], d[2], b, live)
            /\ twin = Seeded(e[1], e[2], b, saved)
    /\ op = "new"
    /\ prev = <<>>
    /\ last = NoCall
    /\ file = NoFile
    /\ running = NoCalls
    /\ analyzer = NoAnalyzer
    /\ run = NoRun

\* twin.save_to_file(path)
SaveToFile ==
    /\ op = "new"
    /\ file' = [exists |-> TRUE, bytes |-> save_to_file(twin), origin |-> "save_to_file"]
    /\ last' = [call |-> "save_to_file", returned |-> Ok]
    /\ UNCHANGED <<grid, op, prev, twin, running, analyzer, run>>

\* grid.load_from_file(path)
LoadFromFile ==
    /\ LET loading == load_from_file(grid, file)
       IN  /\ grid' = loading.grid
           /\ last' = [call |-> "load_from_file", returned |-> loading.returned]
    /\ op' = "load_from_file"
    /\ Remember(1)
    /\ UNCHANGED <<twin, running, analyzer, run, file>>

\* another program writes the file
WriteFile ==
    /\ op = "new"
    /\ \E d \in {dimensions(grid)} \cup ForeignDimensions :
         \E words \in [1..(IF d = dimensions(grid) THEN Len(grid.cells) ELSE 0)
                          -> ForeignWords] :
            file' = [exists |-> TRUE,
                     bytes |-> save_to_file([width |-> d[1], height |-> d[2],
                                             cells |-> Vec(words)]),
                     origin |-> "other"]
    /\ UNCHANGED <<grid, op, prev, twin, running, analyzer, run, last>>

\* the file is cut short
Truncate ==
    /\ op = "new"
    /\ file.exists
    /\ \E n \in CutPoints(Len(file.bytes)) :
          file' = [exists |-> TRUE, bytes |-> SubSeq(file.bytes, 1, n), origin |-> "cut"]
    /\ UNCHANGED <<grid, op, prev, twin, running, analyzer, run, last>>

NextFile == SaveToFile \/ LoadFromFile \/ WriteFile \/ Truncate

SpecFile == InitFile /\ [][NextFile]_vars

----------------------------------------------------------------------------
(* Neighbour counts: count_neighbors(x, y) called on any cell of any board   *)
(* of at most MaxCountCells cells, in any state of the board                 *)

InitCount ==
    /\ \E d \in Dims(MaxCountCells), b \in BoundaryType :
         \E live \in SUBSET ((0..(d[1] - 1)) \X (0..(d[2] - 1))) :
            grid = Seeded(d[1], d[2], b, live)
    /\ op = "new"
    /\ prev = <<>>
    /\ last = NoCall
    /\ twin = NoGrid
    /\ running = NoCalls
    /\ analyzer = NoAnalyzer
    /\ run = NoRun
    /\ file = NoFile

CountNeighborsAt(x, y) ==
    /\ last' = [call |-> "count_neighbors", x |-> x, y |-> y,
                returned |-> count_neighbors(grid, x, y)]
    /\ op' = "count_neighbors"
    /\ Remember(1)
    /\ UNCHANGED <<grid, twin, running, analyzer, run, file>>

NextCount ==
    \E x \in 0..(grid.width - 1), y \in 0..(grid.height - 1) : CountNeighborsAt(x, y)

SpecCount == InitCount /\ [][NextCount]_vars

---------------------------------------------------------------------------

(* Shorthands of the properties *)

Cells(g) == (0..(g.width - 1)) \X (0..(g.height - 1))

Live(g) == {c \in Cells(g) : get(g, c[1], c[2])}

\* the cell an offset from (x, y) lands on under the board's boundary mode, as a
\* set: empty when a Fixed board has no such cell
Landing(g, x, y, dx, dy) ==
    IF g.boundary = "Wrap"
    THEN {<<(x + dx) % g.width, (y + dy) % g.height>>}
    ELSE {<<x + dx, y + dy>>} \cap Cells(g)

---------------------------------------------------------------------------
(* C1 *)

\* C1: after update() an in-range cell is alive exactly when, in the grid
\* before the call, it was alive with 2 or 3 live neighbours or dead with
\* exactly 3; every other cell is dead.
C1_UpdateRule ==
    op = "update" =>
        \A c \in Cells(grid) :
            LET was == get(prev[1], c[1], c[2])
                n == count_neighbors(prev[1], c[1], c[2])
            IN  get(grid, c[1], c[2]) <=> ((was /\ n \in {2, 3}) \/ (~was /\ n = 3))

\* an update in which one cell was born, one survived and one died
C1_Witness ==
    /\ op = "update"
    /\ \E c \in Cells(grid) : ~get(prev[1], c[1], c[2]) /\ get(grid, c[1], c[2])
    /\ \E c \in Cells(grid) : get(prev[1], c[1], c[2]) /\ get(grid, c[1], c[2])
    /\ \E c \in Cells(grid) : get(prev[1], c[1], c[2]) /\ ~get(grid, c[1], c[2])

---------------------------------------------------------------------------
(* C2 *)

\* C2: within one update() call every row task reads only the frozen
\* pre-update cells and the new generation is installed only after all rows
\* are computed: while the call runs the grid still holds the pre-update
\* generation, every collected row is the row computed from it, and whatever
\* order the row tasks ran in the installed grid is the one successor
\* update() computes from the pre-update grid.
C2_FrozenPreUpdate ==
    /\ running[1].active =>
            /\ grid = prev[1]
            /\ \A y \in DOMAIN running[1].rows :
                    running[1].rows[y] = row_updates(prev[1], y)
    /\ op = "update" => grid = update(prev[1])

\* an update() whose row tasks ran out of index order and changed the grid
C2_Witness ==
    /\ op = "update"
    /\ Len(running[1].order) >= 2
    /\ running[1].order[1] # 0
    /\ grid # prev[1]

---------------------------------------------------------------------------
(* C3 *)

\* C3: analyze_pattern never panics: for every pattern, placement, boundary
\* mode, board of width and height 1 or more and every max_generations, the
\* call runs to completion and returns its PatternStats.
C3_NeverPanics == run.pc # "panicked"

---------------------------------------------------------------------------
(* C4 *)

\* C4: an analyze_pattern call has made at most max_generations calls of
\* update() at any moment, and while it is in its loop the loop variable is
\* one more than the number of calls made and at most max_generations: every
\* iteration uses up one of the max_generations values, so the loop ends by
\* itself after at most that many update() calls.
C4_BoundedUpdates ==
    run.pc # "none" =>
        /\ run.updates <= analyzer.max_generations
        /\ Len(run.trace) = run.updates + 1
        /\ run.pc = "loop" =>
              /\ run.generation = run.updates + 1
              /\ run.generation <= analyzer.max_generations

\* a call that used its whole budget of MaxGenerations updates and returned
C4_Witness ==
    /\ run.pc = "done"
    /\ analyzer.max_generations = MaxGenerations
    /\ run.updates = analyzer.max_generations

---------------------------------------------------------------------------
(* C5 *)

\* C5: when the cell state of the generation g just simulated (population not
\* 0) equals the cell state of an earlier generation p, the loop has stopped
\* with Stable: a still life (no oscillator_period, generations_to_stabilize
\* g - 1) if g - p = 1, else an oscillator of period g - p with
\* generations_to_stabilize p; and no other two generations up to g have the
\* same cell state, so g - p is the least period and p the cycle's first
\* generation.
C5_RepeatedStateStable ==
    run.pc \in {"loop", "finalize", "done", "panicked"} =>
        LET g == Len(run.trace) - 1
            population == Cardinality(Live(run.trace[g + 1]))
        IN  \A p \in 0..(g - 1) :
                (population # 0 /\ Live(run.trace[p + 1]) = Live(run.trace[g + 1])) =>
                    /\ run.pc # "loop"
                    /\ run.stats.pattern_type =
                           IF g - p = 1
                           THEN StablePattern(g - 1, None, population)
                           ELSE StablePattern(p, Some(g - p), population)
                    /\ \A a, b \in 0..g :
                           (a < b /\ <<a, b>> # <<p, g>>) =>
                               Live(run.trace[a + 1]) # Live(run.trace[b + 1])

\* a returned oscillator whose cycle began after generation 0
C5_Witness ==
    /\ run.pc = "done"
    /\ run.stats.pattern_type.kind = "StablePattern"
    /\ run.stats.pattern_type.oscillator_period # None
    /\ run.stats.pattern_type.generations_to_stabilize > 0
    /\ Live(run.trace[Len(run.trace)])
           = Live(run.trace[run.stats.pattern_type.generations_to_stabilize + 1])

---------------------------------------------------------------------------
(* C6 *)

\* C6: the analysis of the glider placed in the interior of the 50 x 50 Wrap
\* board with max_generations >= 40 does not panic, stops within 10
\* generations and classifies Spaceship with period 4 and a displacement
\* (dx, dy), |dx| = |dy| > 0, that is the displacement between every two
\* consecutive centroid samples taken 4 generations apart.
C6_GliderSpaceship ==
    /\ run.pc # "panicked"
    /\ run.pc = "loop" => run.updates < 10
    /\ run.pc \in {"finalize", "done"} =>
          LET pattern_type == run.stats.pattern_type
              centers == run.center_history
          IN  /\ pattern_type.kind = "SpaceshipPattern"
              /\ pattern_type.period = 4
              /\ pattern_type.displacement[1] # 0
              /\ pattern_type.displacement[1] * pattern_type.displacement[1]
                     = pattern_type.displacement[2] * pattern_type.displacement[2]
              /\ \A i \in 1..((Len(centers) - 1) \div 4) :
                     <<centers[4 * i + 1][1] - centers[4 * (i - 1) + 1][1],
                       centers[4 * i + 1][2] - centers[4 * (i - 1) + 1][2]>>
                         = pattern_type.displacement

\* a glider analysis that returned Spaceship, three centroid samples apart by 4
C6_Witness ==
    /\ run.pc = "done"
    /\ run.pattern = glider
    /\ run.stats.pattern_type.kind = "SpaceshipPattern"
    /\ Len(run.center_history) > 8

---------------------------------------------------------------------------
(* C7 *)

\* C7: extinction is absorbing: an update() of a grid whose count_alive() is 0
\* leaves count_alive() at 0 (so it stays 0 over any number of updates).
C7_ExtinctionAbsorbing ==
    (op = "update" /\ count_alive(prev[1]) = 0) => count_alive(grid) = 0

\* an update of an extinct grid, on a board of more than one cell
C7_Witness ==
    /\ op = "update"
    /\ count_alive(prev[1]) = 0
    /\ count_alive(grid) = 0
    /\ grid.width * grid.height > 1

---------------------------------------------------------------------------
(* C8 *)

BlockAt(bx, by) == {<<bx, by>>, <<bx + 1, by>>, <<bx, by + 1>>, <<bx + 1, by + 1>>}

\* the cells the twelve positions around the block land on
BlockRing(g, bx, by) ==
    UNION {Landing(g, bx, by, d[1], d[2]) :
              d \in ((-1..2) \X (-1..2)) \ ((0..1) \X (0..1))}

\* the only live cells are the 2x2 block at (bx, by), and every position of the
\* ring around it lands, under the boundary mode, on a dead cell
IsolatedBlock(g, bx, by) ==
    /\ bx + 1 < g.width
    /\ by + 1 < g.height
    /\ Live(g) = BlockAt(bx, by)
    /\ \A c \in BlockRing(g, bx, by) : ~get(g, c[1], c[2])

\* C8: a grid whose only live cells are a 2x2 block ringed by dead cells is
\* unchanged by update(): every cell reads the same after as before.
C8_BlockStillLife ==
    op = "update" =>
        \A bx \in 0..(grid.width - 1), by \in 0..(grid.height - 1) :
            IsolatedBlock(prev[1], bx, by) =>
                \A c \in Cells(grid) : get(grid, c[1], c[2]) = get(prev[1], c[1], c[2])

\* an update of an isolated block on a Wrap board
C8_Witness ==
    /\ op = "update"
    /\ grid.boundary = "Wrap"
    /\ \E bx \in 0..(grid.width - 1), by \in 0..(grid.height - 1) :
          IsolatedBlock(prev[1], bx, by) /\ Live(grid) = BlockAt(bx, by)

---------------------------------------------------------------------------
(* C9 *)

\* the row, and the column, of three through (mx, y) under the board's boundary
\* mode (on a Wrap board either may cross the seam)
Horizontal(g, mx, y) == UNION {Landing(g, mx, y, dx, 0) : dx \in -1..1}

Vertical(g, mx, y) == UNION {Landing(g, mx, y, 0, dy) : dy \in -1..1}

\* the cells the positions around the row land on
RowRing(g, mx, y) ==
    UNION {Landing(g, mx, y, d[1], d[2]) :
              d \in ((-2..2) \X (-1..1)) \ ((-1..1) \X {0})}

\* the only live cells are the horizontal row of three with middle (mx, y), and
\* every position of the ring around it lands on a dead cell
IsolatedRow(g, mx, y) ==
    /\ Cardinality(Horizontal(g, mx, y)) = 3
    /\ Live(g) = Horizontal(g, mx, y)
    /\ \A c \in RowRing(g, mx, y) : ~get(g, c[1], c[2])

\* the live cells are exactly the three cells of `row`
ExactlyRow(g, row) == Cardinality(row) = 3 /\ Live(g) = row

\* the board has the rows the vertical phase needs: the cells above and below
\* the middle cell exist and, on a Wrap board, the column does not close on itself
RoomForVertical(g, y) ==
    IF g.boundary = "Wrap" THEN g.height >= 4 ELSE 1 <= y /\ y + 1 < g.height

Middles(g) == (0..(g.width - 1)) \X (0..(g.height - 1))

\* C9 as stated: an isolated horizontal row of three becomes exactly the
\* vertical row through its middle after one update(), and is exactly the
\* horizontal row again after one more.
C9_BlinkerAsStated ==
    op = "update" =>
        \A m \in Middles(grid) :
            /\ (Len(prev) >= 1 /\ IsolatedRow(prev[1], m[1], m[2]))
                    => ExactlyRow(grid, Vertical(grid, m[1], m[2]))
            /\ (Len(prev) >= 2 /\ IsolatedRow(prev[2], m[1], m[2]))
                    => ExactlyRow(grid, Horizontal(grid, m[1], m[2]))

\* C9 amended: an isolated horizontal row of three whose middle cell has the
\* cells above and below it on the board (Fixed: not in the first or last row;
\* Wrap: a board at least 4 high) becomes exactly the vertical row through its
\* middle after one update(), and is exactly the horizontal row again after
\* one more.
C9_BlinkerPeriod2 ==
    op = "update" =>
        \A m \in Middles(grid) :
            /\ (Len(prev) >= 1 /\ IsolatedRow(prev[1], m[1], m[2])
                    /\ RoomForVertical(grid, m[2]))
                    => ExactlyRow(grid, Vertical(grid, m[1], m[2]))
            /\ (Len(prev) >= 2 /\ IsolatedRow(prev[2], m[1], m[2])
                    /\ RoomForVertical(grid, m[2]))
                    => ExactlyRow(grid, Horizontal(grid, m[1], m[2]))

\* two updates of an isolated blinker on a Wrap board: vertical, then horizontal
C9_Witness ==
    /\ op = "update"
    /\ Len(prev) = 2
    /\ grid.boundary = "Wrap"
    /\ \E m \in Middles(grid) :
          /\ IsolatedRow(prev[2], m[1], m[2])
          /\ RoomForVertical(grid, m[2])
          /\ ExactlyRow(prev[1], Vertical(grid, m[1], m[2]))
          /\ ExactlyRow(grid, Horizontal(grid, m[1], m[2]))

---------------------------------------------------------------------------
(* C10 *)

\* C10: update() is deterministic: two grids with identical dimensions,
\* boundary mode and cell state have identical cell state after each has
\* called update() once (the same number of times), however rayon scheduled
\* the row tasks of either call.
C10_Deterministic ==
    (/\ ~running[1].active
     /\ ~running[2].active
     /\ running[1].calls = running[2].calls) => twin = grid

\* both grids have called update() once, their row tasks in different orders,
\* and the generation changed
C10_Witness ==
    /\ ~running[1].active
    /\ ~running[2].active
    /\ running[1].calls = 1
    /\ running[2].calls = 1
    /\ running[1].order # running[2].order
    /\ grid # prev[1]
    /\ twin = grid

---------------------------------------------------------------------------
(* C13 *)

\* a mod n for n > 0 and -n <= a < 2n: the one of a - n, a, a + n in 0..n-1
Modulo(a, n) == IF a < 0 THEN a + n ELSE IF a >= n THEN a - n ELSE a

\* C13: count_neighbors(x, y) on an in-range cell (x, y) returns, under Wrap,
\* the number of the 8 offsets (dx, dy) for which the cell
\* ((x + dx) mod width, (y + dy) mod height) is alive, an offset counted once
\* each even when several land on the same cell, and, under Fixed, the number
\* of offsets that land inside the grid on a live cell; it lies in 0..8.
C13_CountNeighbors ==
    last.call = "count_neighbors" =>
        LET live == Live(grid)
            x == last.x
            y == last.y
            wrapped == {d \in Offsets :
                           <<Modulo(x + d[1], grid.width),
                             Modulo(y + d[2], grid.height)>> \in live}
            inside == {d \in Offsets : <<x + d[1], y + d[2]>> \in live}
        IN  /\ last.returned \in 0..8
            /\ grid.boundary = "Wrap" => last.returned = Cardinality(wrapped)
            /\ grid.boundary = "Fixed" => last.returned = Cardinality(inside)

\* a call on a Wrap board that returned 8 with fewer than 8 live cells on the
\* board: offsets that land on the same cell are each counted
C13_Witness ==
    /\ last.call = "count_neighbors"
    /\ grid.boundary = "Wrap"
    /\ Cardinality(Live(grid)) < 8
    /\ last.returned = 8

---------------------------------------------------------------------------
(* C14 *)

\* the grid with the cell (x, y) dead
Without(g, x, y) == set(g, x, y, FALSE)

\* the four corners of the board
Corners(g) == {0, g.width - 1} \X {0, g.height - 1}

\* C14 as stated: under Wrap a live cell at (width - 1, 0) is counted by
\* count_neighbors(0, 0); under Fixed a live cell at (width - 1, 0) is not
\* counted by count_neighbors(0, 0); under Fixed count_neighbors of a corner
\* is at most 3.
C14_AsStated ==
    grid # NoGrid =>
        LET x == grid.width - 1
        IN  /\ (grid.boundary = "Wrap" /\ get(grid, x, 0))
                => count_neighbors(grid, 0, 0) > count_neighbors(Without(grid, x, 0), 0, 0)
            /\ (grid.boundary = "Fixed" /\ get(grid, x, 0))
                => count_neighbors(grid, 0, 0) = count_neighbors(Without(grid, x, 0), 0, 0)
            /\ grid.boundary = "Fixed"
                => \A c \in Corners(grid) : count_neighbors(grid, c[1], c[2]) <= 3

\* C14 amended: under Wrap a live cell at (width - 1, 0) is counted by
\* count_neighbors(0, 0); under Fixed, on a grid whose width is not 2, a live
\* cell at (width - 1, 0) is not counted by count_neighbors(0, 0); under Fixed
\* count_neighbors of a corner is at most 3.
C14_EdgeNeighbors ==
    grid # NoGrid =>
        LET x == grid.width - 1
        IN  /\ (grid.boundary = "Wrap" /\ get(grid, x, 0))
                => count_neighbors(grid, 0, 0) > count_neighbors(Without(grid, x, 0), 0, 0)
            /\ (grid.boundary = "Fixed" /\ grid.width # 2 /\ get(grid, x, 0))
                => count_neighbors(grid, 0, 0) = count_neighbors(Without(grid, x, 0), 0, 0)
            /\ grid.boundary = "Fixed"
                => \A c \in Corners(grid) : count_neighbors(grid, c[1], c[2]) <= 3

\* a Fixed board 3 or more wide with the cell (width - 1, 0) alive, the cell
\* (0, 0) with a live neighbour, and a corner with all 3 of its neighbours alive
C14_Witness ==
    /\ grid # NoGrid
    /\ grid.boundary = "Fixed"
    /\ grid.width >= 3
    /\ get(grid, grid.width - 1, 0)
    /\ count_neighbors(grid, 0, 0) >= 1
    /\ \E c \in Corners(grid) : count_neighbors(grid, c[1], c[2]) = 3

---------------------------------------------------------------------------
(* C17 *)

\* C17: in every PatternStats returned by analyze_pattern, max_population is
\* the maximum of population_history and generation_of_max is the smallest
\* index at which population_history attains it (index 0 is the seed).
C17_MaxPopulation ==
    run.pc = "done" =>
        LET history == run.stats.population_history
            first == run.stats.generation_of_max + 1
        IN  /\ first \in DOMAIN history
            /\ history[first] = run.stats.max_population
            /\ \A i \in DOMAIN history :
                  /\ history[i] <= run.stats.max_population
                  /\ history[i] = run.stats.max_population => i >= first

\* a returned analysis whose population first grew to its maximum after the
\* seed, reached it again in a later generation and was lower in between
C17_Witness ==
    /\ run.pc = "done"
    /\ run.stats.generation_of_max >= 1
    /\ \E i, j \in DOMAIN run.stats.population_history :
          /\ run.stats.generation_of_max + 1 < i
          /\ i < j
          /\ run.stats.population_history[i] < run.stats.max_population
          /\ run.stats.population_history[j] = run.stats.max_population

---------------------------------------------------------------------------
(* C18 *)

\* the population of generation g of the call, counted on its grid
PopulationAt(g) == Cardinality(Live(run.trace[g + 1]))

\* Extinct{g} is reported exactly at the first simulated generation g
\* (1, 2, ...) whose population is 0, and g = 0 only with an empty seed
ExtinctAtFirstEmptyGeneration ==
    run.pc = "done" =>
        /\ run.stats.pattern_type.kind = "ExtinctPattern" =>
              LET g == run.stats.pattern_type.generations_to_extinction
              IN  /\ g \in 0..run.updates
                  /\ PopulationAt(g) = 0
                  /\ \A i \in 1..(g - 1) : PopulationAt(i) # 0
                  /\ g = 0 => run.stats.initial_population = 0
        /\ (\E i \in 1..run.updates : PopulationAt(i) = 0) =>
              run.stats.pattern_type.kind = "ExtinctPattern"

\* C18 as stated: analyze_pattern on a seed whose initial population is 0 is
\* not an error and resolves to Extinct; Extinct{g} is reported at the first
\* simulated generation g whose population is 0; generations_to_extinction = 0
\* only if the initial population is 0.
C18_AsStated ==
    /\ (run.pc # "none" /\ run.stats.initial_population = 0) =>
          /\ run.pc # "panicked"
          /\ run.pc = "done" => run.stats.pattern_type.kind = "ExtinctPattern"
    /\ ExtinctAtFirstEmptyGeneration

\* C18 amended: with max_generations >= 1, analyze_pattern on a seed whose
\* initial population is 0 is not an error and resolves to Extinct (with
\* max_generations = 0 it is not an error and resolves to Unknown);
\* Extinct{g} is reported at the first simulated generation g whose population
\* is 0; generations_to_extinction = 0 only if the initial population is 0.
C18_EmptySeedExtinct ==
    /\ (run.pc # "none" /\ run.stats.initial_population = 0) =>
          /\ run.pc # "panicked"
          /\ run.pc = "done" =>
                run.stats.pattern_type =
                    IF analyzer.max_generations >= 1 THEN ExtinctPattern(1) ELSE Unknown
    /\ ExtinctAtFirstEmptyGeneration

\* a returned analysis of a pattern placed with every offset off the board:
\* empty seed, Extinct at generation 1
C18_Witness ==
    /\ run.pc = "done"
    /\ Len(run.pattern.cells) > 0
    /\ run.stats.initial_population = 0
    /\ run.stats.pattern_type = ExtinctPattern(1)

---------------------------------------------------------------------------
(* C20 *)

\* the indices 0, p, 2p, ... of a history of len entries
SampleIndices(len, p) == {k \in 0..(len - 1) : k % p = 0}

\* what C20 says detect_spaceship returns
StatedSpaceship(center_history, population_history) ==
    LET len == Len(center_history)
        at(k) == center_history[k + 1]
        step(k, p) == <<at(k + p)[1] - at(k)[1], at(k + p)[2] - at(k)[2]>>
        recent == {population_history[i] :
                      i \in (Len(population_history) - 9)..Len(population_history)}
        qualifies(p) ==
            /\ Cardinality(SampleIndices(len, p)) >= 2
            /\ \A k \in SampleIndices(len, p) :
                  k + (2 * p) < len => step(k, p) = step(k + p, p)
        periods == {p \in 2..10 : qualifies(p)}
    IN  IF Cardinality(recent) > 1 \/ periods = {} THEN None
        ELSE LET p == CHOOSE q \in periods : \A r \in periods : q <= r
                 d == step(0, p)
             IN  Some(SpaceshipPattern(p, d, <<(d[1] * d[1]) + (d[2] * d[2]), p>>))

\* the generation just simulated reached the spaceship check: it has 11 or
\* more centroids and was neither extinct nor a repeated state
SpaceshipChecked ==
    /\ run.pc \in {"loop", "finalize", "done", "panicked"}
    /\ Len(run.center_history) > 10
    /\ run.stats.pattern_type.kind \notin {"ExtinctPattern", "StablePattern"}

\* C20: spaceship detection, run once at least 10 generations of centroid
\* history exist, reports no spaceship if the population changed within the
\* last 10 generations; otherwise it returns the smallest period p in 2..10
\* for which the centroid samples at indices 0, p, 2p, ... number at least 2
\* and all displacements between consecutive samples are identical, with that
\* displacement and speed sqrt(dx^2 + dy^2) / p (held as the pair of dx^2 + dy^2
\* and p); if no such p exists it reports no spaceship.
C20_SpaceshipAsStated ==
    SpaceshipChecked =>
        detect_spaceship(run.center_history, run.stats.population_history)
            = Returned(StatedSpaceship(run.center_history, run.stats.population_history))

---------------------------------------------------------------------------
(* C15 *)

\* C15: out-of-range coordinates never raise an error: for x >= width or
\* y >= height, get(x, y) returns false, and set(x, y, state) and
\* toggle(x, y) leave every cell of the grid, and every bit of its storage,
\* unchanged.
C15_OutOfRangeIgnored ==
    (/\ last.call \in {"get", "set", "toggle"}
     /\ (last.x >= grid.width \/ last.y >= grid.height)) =>
        /\ last.call = "get" => last.returned = FALSE
        /\ \A c \in Cells(grid) : get(grid, c[1], c[2]) = get(prev[1], c[1], c[2])
        /\ grid = prev[1]

\* a toggle one column past the right edge, in a row of the board, of a grid
\* with a live cell in that row
C15_Witness ==
    /\ last.call = "toggle"
    /\ last.x = grid.width
    /\ last.y < grid.height
    /\ \E x \in 0..(grid.width - 1) : get(grid, x, last.y)
    /\ grid = prev[1]

---------------------------------------------------------------------------
(* C19 *)

\* the cells of the board at (x + c[1], y + c[2]) for the offsets c of a set.
\* The sums are those of the integers: from a coordinate at the top of the
\* usize range (held negative) they are past every board.
Targets(g, offsets, x, y) ==
    IF x < 0 \/ y < 0 THEN {}
    ELSE {<<x + c[1], y + c[2]>> : c \in offsets} \cap Cells(g)

\* C19: Pattern.place(grid, x, y) never errors and leaves the grid in this
\* state: every in-grid cell (x + dx, y + dy) for a listed offset is alive,
\* every other in-grid cell of the width x height box anchored at (x, y) is
\* dead, offsets and box cells falling outside the grid are skipped, and
\* every cell outside the box that is not a listed offset keeps its previous
\* value.
C19_PlaceFrame ==
    last.call = "place" =>
        LET pattern == last.pattern
            listed == Targets(grid, {pattern.cells[k] : k \in DOMAIN pattern.cells},
                              last.x, last.y)
            boxed == Targets(grid, (0..(pattern.width - 1)) \X (0..(pattern.height - 1)),
                             last.x, last.y)
        IN  /\ ~last.panic
            /\ \A c \in Cells(grid) :
                  get(grid, c[1], c[2]) =
                      IF c \in listed THEN TRUE
                      ELSE IF c \in boxed THEN FALSE
                      ELSE get(prev[1], c[1], c[2])
            /\ dimensions(grid) = dimensions(prev[1])

---------------------------------------------------------------------------
(* C11 *)

\* the call just made is a load_from_file of the file as it now is
Loaded == last.call = "load_from_file"

---------------------------------------------------------------------------
(* C12 *)

\* the number stored in the four bytes of a file after the first `before`
StoredDimension(bytes, before) ==
    LET place_value == <<1, 256, 65536, 16777216>>
        upto[k \in 0..4] == IF k = 0 THEN 0
                            ELSE upto[k - 1] + (bytes[before + k] * place_value[k])
    IN  upto[4]

\* the sequence part occurs in the sequence whole, its elements adjacent
Contains(whole, part) ==
    \E i \in 1..(Len(whole) - Len(part) + 1) :
        SubSeq(whole, i, i + Len(part) - 1) = part

\* "(a, b)" written out, a and b in decimal
Written(a, b) ==
    LET digits(n) == IF n < 10 THEN <<n>>
                     ELSE IF n < 100 THEN <<n \div 10, n % 10>>
                     ELSE <<n \div 100, (n \div 10) % 10, n % 10>>
        char == [d \in 0..9 |-> ToString(d)]
        text(n) == [i \in 1..Len(digits(n)) |-> char[digits(n)[i]]]
    IN  <<"(">> \o text(a) \o <<", ">> \o text(b) \o <<")">>

\* C12: load_from_file on a file whose stored width or height differs from
\* the target grid's returns an error of kind InvalidData (not success, not a
\* plain I/O error) whose message contains both the file's and the grid's
\* dimension pairs.
C12_DimensionMismatch ==
    (Loaded /\ file.exists /\ Len(file.bytes) >= 8) =>
        LET width == StoredDimension(file.bytes, 0)
            height == StoredDimension(file.bytes, 4)
        IN  (width # prev[1].width \/ height # prev[1].height) =>
                /\ last.returned.ok = FALSE
                /\ last.returned.kind = "InvalidData"
                /\ Contains(last.returned.message, Written(width, height))
                /\ Contains(last.returned.message, Written(prev[1].width, prev[1].height))

\* a load of a file saved by a grid of the transposed dimensions, refused
\* with InvalidData
C12_Witness ==
    /\ Loaded
    /\ file.exists
    /\ file.origin = "save_to_file"
    /\ twin.width = prev[1].height
    /\ twin.height = prev[1].width
    /\ twin.width # twin.height
    /\ last.returned.ok = FALSE
    /\ last.returned.kind = "InvalidData"

---------------------------------------------------------------------------
(* C16 *)

\* C16: in every grid state reachable by any sequence of set, toggle, clear,
\* randomize, pattern placement, update and load_from_file, count_alive()
\* (the sum of set bits over all storage words) equals the number of
\* in-range cells (x, y) for which get(x, y) is true; storage bits at
\* positions x >= width never contribute.
C16_CountAlive ==
    grid # NoGrid => count_alive(grid) = Cardinality(Live(grid))

---------------------------------------------------------------------------
(* C29 *)

\* C29: a load_from_file call that returns an error (missing file, dimension
\* mismatch, truncated or short file) leaves every cell of the grid as it was
\* before the call.
C29_ErrorLeavesCells ==
    (Loaded /\ ~last.returned.ok) =>
        /\ dimensions(grid) = dimensions(prev[1])
        /\ Live(grid) = Live(prev[1])

---------------------------------------------------------------------------
(* C26 *)

\* C26: for every in-range cell (x, y) and every grid state, toggle(x, y)
\* flips get(x, y) and leaves every other cell unchanged, and a second
\* toggle(x, y) restores the exact grid state before the first.
C26_ToggleInvolution ==
    (/\ last.call = "toggle"
     /\ last.x < grid.width
     /\ last.y < grid.height) =>
        /\ get(grid, last.x, last.y) = ~get(prev[1], last.x, last.y)
        /\ \A c \in Cells(grid) \ {<<last.x, last.y>>} :
              get(grid, c[1], c[2]) = get(prev[1], c[1], c[2])
        /\ toggle(grid, last.x, last.y) = prev[1]

\* a toggle that killed a live cell of a board with another live cell
C26_Witness ==
    /\ last.call = "toggle"
    /\ last.x < grid.width
    /\ last.y < grid.height
    /\ get(prev[1], last.x, last.y)
    /\ ~get(grid, last.x, last.y)
    /\ Live(grid) # {}

---------------------------------------------------------------------------
(* C23 *)

\* C23: in every PatternStats returned by analyze_pattern,
\* population_history[k] is the population of generation k for
\* k = 0..generations_analyzed, generations_analyzed is the length of
\* population_history less one, which is the generation at which the analysis
\* stopped and at most max_generations, and final_population is the last
\* element of population_history.
C23_HistoryAndFinalStats ==
    run.pc = "done" =>
        LET history == run.stats.population_history
        IN  /\ run.stats.generations_analyzed = Len(history) - 1
            /\ run.stats.generations_analyzed = run.updates
            /\ run.stats.generations_analyzed <= analyzer.max_generations
            /\ \A k \in 0..run.stats.generations_analyzed :
                  history[k + 1] = PopulationAt(k)
            /\ run.stats.final_population = history[Len(history)]

\* a returned analysis that stopped before its budget was used, with a final
\* population different from the seed's and from the maximum
C23_Witness ==
    /\ run.pc = "done"
    /\ run.stats.generations_analyzed \in 2..(analyzer.max_generations - 1)
    /\ run.stats.final_population # run.stats.initial_population
    /\ run.stats.final_population # run.stats.max_population
    /\ run.stats.final_population # 0

---------------------------------------------------------------------------
(* C22 *)

\* the state of generation g of the call is that of an earlier generation
RepeatsEarlier(g) == \E p \in 0..(g - 1) : Live(run.trace[p + 1]) = Live(run.trace[g + 1])

\* the spaceship detection, applied to the histories as they were at
\* generation g, found a spaceship
SpaceshipFoundAt(g) ==
    /\ g + 1 > 10
    /\ LET found == detect_spaceship(SubSeq(run.center_history, 1, g + 1),
                                     SubSeq(run.stats.population_history, 1, g + 1))
       IN  ~found.panic /\ found.value # None

\* the growth up to generation g is explosive
ExplosiveAt(g) ==
    /\ g > 50
    /\ PopulationAt(g) > 2 * PopulationAt(0)
    /\ 10 * (PopulationAt(g) - PopulationAt(0)) > g

\* a terminal condition occurs at generation g
TerminalAt(g) ==
    \/ PopulationAt(g) = 0
    \/ RepeatsEarlier(g)
    \/ SpaceshipFoundAt(g)
    \/ ExplosiveAt(g)

\* C22: if none of the terminal conditions (extinction, repeated state,
\* spaceship, explosive growth) occurs in generations 1..max_generations,
\* analyze_pattern returns pattern_type Unknown with generations_analyzed =
\* max_generations; and Unknown is returned only after exactly
\* max_generations updates, none of which met a terminal condition.
C22_UnknownIffBudgetExhausted ==
    run.pc = "done" =>
        /\ (/\ run.updates = analyzer.max_generations
            /\ \A g \in 1..analyzer.max_generations : ~TerminalAt(g)) =>
              /\ run.stats.pattern_type = Unknown
              /\ run.stats.generations_analyzed = analyzer.max_generations
        /\ run.stats.pattern_type = Unknown =>
              /\ run.updates = analyzer.max_generations
              /\ \A g \in 1..run.updates : ~TerminalAt(g)
        /\ run.updates < analyzer.max_generations => TerminalAt(run.updates)

\* a returned analysis that used the whole budget of MaxGenerations and found
\* nothing
C22_Witness ==
    /\ run.pc = "done"
    /\ analyzer.max_generations = MaxGenerations
    /\ run.stats.pattern_type = Unknown
    /\ run.stats.generations_analyzed = MaxGenerations

---------------------------------------------------------------------------
(* C27 *)

\* the generations of the call whose hash the loop recorded if it records one
\* exactly when no check succeeded: generation 0 and every simulated
\* generation that met no terminal condition
Recorded == {k \in 0..run.updates : k = 0 \/ ~TerminalAt(k)}

---------------------------------------------------------------------------
(* C21 *)

\* C21: analyze_pattern classifies Exploding at generation g only if g > 50,
\* the population at g exceeds twice the initial population and
\* 10 * (population - initial_population) > g; the reported
\* average_growth_rate is the quotient (population - initial_population) / g
\* (held as the pair of its operands); and whenever the three conditions hold
\* at a generation not classified Extinct, Stable or Spaceship, the analysis
\* stops there with Exploding.
C21_Exploding ==
    (run.pc \in {"loop", "finalize", "done"} /\ run.updates >= 1) =>
        \A population \in {PopulationAt(run.updates)}, initial_population \in {PopulationAt(0)} :
            LET g == run.updates
                pattern_type == run.stats.pattern_type
                conditions == /\ g > 50
                              /\ population > 2 * initial_population
                              /\ 10 * (population - initial_population) > g
            IN  /\ pattern_type.kind = "ExplodingPattern" =>
                      /\ conditions
                      /\ pattern_type.average_growth_rate
                             = <<population - initial_population, g>>
                /\ (/\ conditions
                    /\ pattern_type.kind
                           \notin {"ExtinctPattern", "StablePattern", "SpaceshipPattern"}) =>
                      /\ pattern_type.kind = "ExplodingPattern"
                      /\ run.pc # "loop"

\* a returned analysis classified Exploding later than generation 51: the
\* conditions did not hold at generation 51 and held at a later one
C21_Witness ==
    /\ run.pc = "done"
    /\ run.stats.pattern_type.kind = "ExplodingPattern"
    /\ run.updates > 51
    /\ ~ExplosiveAt(51)

---------------------------------------------------------------------------
(* C24 *)

\* the count recorded in stable_formations under a name, 0 when it has none
FormationCount(name) ==
    IF name \in DOMAIN run.stats.stable_formations
    THEN run.stats.stable_formations[name] ELSE 0

\* the top-left corners of the 2 x 2 all-live squares of the grid
BlockSquares(g) ==
    {c \in Cells(g) :
        {c, <<c[1] + 1, c[2]>>, <<c[1], c[2] + 1>>, <<c[1] + 1, c[2] + 1>>} \subseteq Live(g)}

\* the left ends of the horizontal rows of three live cells of the grid whose
\* cells directly above and below are all dead
BlinkerRows(g) ==
    {c \in Cells(g) :
        /\ {<<c[1] + dx, c[2]>> : dx \in 0..2} \subseteq Live(g)
        /\ {<<c[1] + dx, c[2] + dy>> : dx \in 0..2, dy \in {-1, 1}} \cap Live(g) = {}}

\* C24: stable_formations is empty unless the final classification is Stable;
\* when it is Stable, the recorded "Block" count is the number of 2 x 2
\* all-live squares of the final grid and the recorded "Blinker" count the
\* number of horizontal rows of three live cells whose cells directly above
\* and below are all dead, wherever on the board those formations lie.
C24_StableFormations ==
    run.pc = "done" =>
        IF run.stats.pattern_type.kind = "StablePattern"
        THEN /\ FormationCount("Block") = Cardinality(BlockSquares(grid))
             /\ FormationCount("Blinker") = Cardinality(BlinkerRows(grid))
        ELSE DOMAIN run.stats.stable_formations = {}

---------------------------------------------------------------------------
(* C28 *)

\* the indices of center_history that the inner loop of detect_spaceship
\* reads for a period: i * period and (i + 1) * period for i in 0..samples
IndicesRead(len, period) ==
    UNION {{i * period, (i + 1) * period} : i \in 0..((len \div period) - 1)}

\* the candidate period passes the two `continue` tests
NotSkipped(len, period) == len > period * 2 /\ len \div period >= 2

\* the displacements between the samples of a period are all the same
SameDisplacements(center_history, period) ==
    LET at(k) == center_history[k + 1]
        step(i) == <<at((i + 1) * period)[1] - at(i * period)[1],
                     at((i + 1) * period)[2] - at(i * period)[2]>>
    IN  \A i \in 0..((Len(center_history) \div period) - 2) : step(i) = step(i + 1)

\* the candidate periods whose inner loop runs: those not skipped that no
\* smaller period ended the loop before
PeriodsTried(center_history) ==
    LET len == Len(center_history)
    IN  {period \in 2..10 :
            /\ NotSkipped(len, period)
            /\ \A q \in 2..(period - 1) :
                  NotSkipped(len, q) =>
                      /\ \A k \in IndicesRead(len, q) : k < len
                      /\ ~SameDisplacements(center_history, q)}

\* detect_spaceship was called on the histories of the generation just
\* simulated and went on to its period loop
PeriodLoopEntered ==
    /\ SpaceshipChecked
    /\ \A i \in (Len(run.stats.population_history) - 9)..Len(run.stats.population_history) :
          run.stats.population_history[i]
              = run.stats.population_history[Len(run.stats.population_history)]

\* C28: in detect_spaceship, for every centroid-history length it is called
\* with (11 or more entries, population constant over the last 10) and every
\* candidate period 2..10 that is not skipped, every index it reads,
\* i * period and (i + 1) * period for i in 0..floor(len / period), is
\* strictly less than the length of center_history.
C28_SpaceshipIndicesInRange ==
    PeriodLoopEntered =>
        \A period \in PeriodsTried(run.center_history) :
            \A k \in IndicesRead(Len(run.center_history), period) :
                k < Len(run.center_history)

---------------------------------------------------------------------------
(* C30 *)

\* a set of cells moved by (dx, dy): around the edges of a Wrap board, off
\* the board's coordinates (and then equal to no set of cells) otherwise
Translated(cells, displacement, grid_size, boundary) ==
    {IF boundary = "Wrap"
     THEN <<(c[1] + displacement[1]) % grid_size[1], (c[2] + displacement[2]) % grid_size[2]>>
     ELSE <<c[1] + displacement[1], c[2] + displacement[2]>> : c \in cells}

\* the analysis ended with a Spaceship classification
SpaceshipReturned ==
    /\ run.pc \in {"finalize", "done"}
    /\ run.stats.pattern_type.kind = "SpaceshipPattern"

\* C30: whenever analyze_pattern returns Spaceship{period, displacement} at
\* generation g, the live cells of generation g are the live cells of
\* generation g - period translated by the displacement (modulo the board
\* size under Wrap), and the displacement is not (0, 0).
C30_SpaceshipIsReal ==
    SpaceshipReturned =>
        LET pattern_type == run.stats.pattern_type
            g == run.updates
        IN  /\ pattern_type.displacement # <<0, 0>>
            /\ Live(run.trace[g + 1])
                   = Translated(Live(run.trace[g + 1 - pattern_type.period]),
                                pattern_type.displacement, analyzer.grid_size,
                                analyzer.boundary)

---------------------------------------------------------------------------
(* C25 *)

\* C25: analyses share no grid state: the stats compare_patterns returns for
\* an entry are those of a standalone analyze_pattern call of the analyzer
\* for that entry, whatever the other entries are and in whatever order they
\* are analyzed; equal entries of one slice have equal results.
C25_AnalysesIndependent ==
    last.call = "compare_patterns" =>
        /\ Len(last.results) <= Len(last.patterns)
        /\ \A i \in 1..Len(last.results) :
              /\ last.patterns[i] = <<last.before.pattern, last.before.x, last.before.y>>
                    => last.results[i] = last.before.returned
              /\ \A j \in 1..Len(last.results) :
                    last.patterns[i] = last.patterns[j] => last.results[i] = last.results[j]

\* compare_patterns has returned the stats of the entry analyzed alone before,
\* after those of another entry with another outcome
C25_Witness ==
    /\ last.call = "compare_patterns"
    /\ Len(last.results) = 2
    /\ Len(last.patterns) = 2
    /\ last.patterns[2] = <<last.before.pattern, last.before.x, last.before.y>>
    /\ last.patterns[1] # last.patterns[2]
    /\ last.results[1].pattern_type # last.results[2].pattern_type
    /\ last.results[2].generations_analyzed > 0

=============================================================================
